---------------------------- MODULE Spec2Model ----------------------------
(***************************************************************************)
(* Model of the connect-hub face verification service: the HTTP gateway   *)
(* (middleware, VerificationHandler), the orchestrator                     *)
(* (FaceVerificationService.VerifyVideo / RegisterFace with their          *)
(* goroutines, channels and timers) and the encrypted vector store.        *)
(*                                                                         *)
(* Conventions.  Floating point values in [-1,1] are kept in hundredths   *)
(* (0.75 is 75).  A user id is the sequence of its bytes.  An uploaded     *)
(* video is described by what the image pipeline computes from it: the     *)
(* liveness score of its frames and the faces the recognizer detects in    *)
(* its first frame.  Time is abstracted: a timer may fire whenever the     *)
(* select that holds it is waiting.                                        *)
(***************************************************************************)
EXTENDS Integers, Sequences, FiniteSets, TLC

\* ------------------------------------------------------------------ bounds

\* Request contexts that may be live at the same time.
MaxReq == 2
\* Embeddings the store may hold: registrations are admitted up to it.
MaxEnroll == 3
\* Burst of the token bucket and tokens it gains per minute (both 60 in the
\* code, scaled down here): a minute is Burst refill intervals.
Burst == 2
\* Readings the clock goes through.
MaxClock == 2
\* Columns and rows of the frames (640 and 480 in the code).
FrameW == 3
FrameH == 3
\* Frames in a sequence given to the liveness detection.
MaxFrames == 3
\* Embeddings an identity has in a store given to the duplicate check.
MaxStored == 2
\* The configured MAX_CONCURRENT_REQUESTS (10 by default, scaled down here
\* below the number of request contexts).
MaxConcurrentRequests == 1

\* ------------------------------------------------------- program constants

LivenessThreshold == 85
SimilarityThreshold == 75
MaxVideoSize == 52428800
MinVideoSize == 1024
MaxUserIDLen == 64

None == "none"
NoUser == << >>

\* ---------------------------------------------------------- pure functions

\* validTypes of validateVideoFile.
ValidTypes ==
  {"video/webm", "video/mp4", "video/avi", "video/mov", "video/quicktime",
   "image/jpeg", "image/png"}

\* The variant of validateVideoFile whose size limits are exclusive.
validateVideoFileStrict(size, contentType) ==
  IF size >= MaxVideoSize THEN "too large"
  ELSE IF size <= MinVideoSize THEN "too small"
  ELSE IF contentType \in ValidTypes THEN "ok"
  ELSE "invalid file type"

\* validateVideoFile: nil ("ok") or the error.
validateVideoFile(size, contentType) ==
  IF size > MaxVideoSize THEN "too large"
  ELSE IF size < MinVideoSize THEN "too small"
  ELSE IF contentType \in ValidTypes THEN "ok"
  ELSE "invalid file type"

\* The character test of isValidUserID, on one byte of the id.  (The code
\* ranges over runes; a rune outside ASCII is made of bytes >= 128 and is
\* rejected either way.)
isValidUserIDChar(c) ==
  \/ (c >= 97 /\ c <= 122)
  \/ (c >= 65 /\ c <= 90)
  \/ (c >= 48 /\ c <= 57)
  \/ c = 45
  \/ c = 95

\* The variant of isValidUserID that forgets the length limit.
isValidUserIDNoLimit(userID) ==
  /\ Len(userID) >= 1
  /\ \A i \in 1..Len(userID) : isValidUserIDChar(userID[i])

isValidUserID(userID) ==
  IF Len(userID) < 1 \/ Len(userID) > MaxUserIDLen THEN FALSE
  ELSE \A i \in 1..Len(userID) : isValidUserIDChar(userID[i])

\* Floor of the square root (math.Sqrt on the norms; the embeddings of the
\* model have integral norms, so the value is exact).
Sqrt(n) == CHOOSE k \in 0..n : k * k <= n /\ (k + 1) * (k + 1) > n

RECURSIVE Dot(_, _, _)
Dot(a, b, i) == IF i = 0 THEN 0 ELSE a[i] * b[i] + Dot(a, b, i - 1)

\* The variant of cosineSimilarity that compares the common prefix of
\* vectors of different lengths.
cosineSimilarityPrefix(a, b) ==
  LET n == IF Len(a) < Len(b) THEN Len(a) ELSE Len(b)
      dotProduct == Dot(a, b, n)
      normA == Dot(a, a, Len(a))
      normB == Dot(b, b, Len(b))
  IN IF normA = 0 \/ normB = 0 THEN 0
     ELSE (100 * dotProduct) \div (Sqrt(normA) * Sqrt(normB))

\* cosineSimilarity, in hundredths.
cosineSimilarity(a, b) ==
  IF Len(a) # Len(b) THEN 0
  ELSE LET dotProduct == Dot(a, b, Len(a))
           normA == Dot(a, a, Len(a))
           normB == Dot(b, b, Len(a))
       IN IF normA = 0 \/ normB = 0 THEN 0
          ELSE (100 * dotProduct) \div (Sqrt(normA) * Sqrt(normB))

RECURSIVE MaxSim(_, _, _, _)
MaxSim(newVector, userVectors, i, acc) ==
  IF i > Len(userVectors) THEN acc
  ELSE LET similarity == cosineSimilarity(newVector, userVectors[i].vector)
       IN MaxSim(newVector, userVectors, i + 1,
                 IF similarity > acc THEN similarity ELSE acc)

\* The variant of checkForDuplicates that takes an identity without
\* enrollments for a match.
checkForDuplicatesFirstUse(store, userID, newVector) ==
  IF userID \notin DOMAIN store \/ Len(store[userID]) = 0 THEN 100
  ELSE MaxSim(newVector, store[userID], 1, 0)

\* checkForDuplicates on a store: the similarity it returns (its error is
\* always nil).
checkForDuplicates(store, userID, newVector) ==
  IF userID \notin DOMAIN store \/ Len(store[userID]) = 0 THEN 0
  ELSE MaxSim(newVector, store[userID], 1, 0)

\* generateFaceVector: the descriptor of faces[0], or the error.
generateFaceVector(faces) ==
  IF Len(faces) = 0 THEN [err |-> "no faces detected", vector |-> << >>]
  ELSE [err |-> None, vector |-> faces[1].descriptor]

\* The variant of the liveness decision that needs more than the threshold.
detectLivenessStrict(score) ==
  [isLive |-> score > LivenessThreshold, score |-> score]

\* detectLiveness on the frames of a video with the given score.
detectLiveness(score) ==
  [isLive |-> score >= LivenessThreshold, score |-> score]

\* ------------------------------------------------------------------ images

\* An image is the sequence of its rows, a row the sequence of its pixels,
\* a pixel the 8-bit << r, g, b >> of an opaque color.  RGBA() yields 257
\* times the 8-bit value, so a 16-bit difference over 65535 is the 8-bit
\* difference over 255.  The float64 signals are kept in 1/Scale.
Scale == 10000

Abs(n) == IF n < 0 THEN -n ELSE n
Min(a, b) == IF a < b THEN a ELSE b

\* img.Bounds().Dx() and Dy().
Dx(img) == Len(img[1])
Dy(img) == Len(img)

\* img.At(x, y), coordinates from 0.
At(img, x, y) == img[y + 1][x + 1]

\* The sum of the values of a function over a finite part of its domain.
RECURSIVE SumFn(_, _)
SumFn(f, D) ==
  IF D = {} THEN 0
  ELSE LET d == CHOOSE x \in D : TRUE
       IN f[d] + SumFn(f, D \ {d})

\* The pixels the loops "y += 4, x += 4" visit.
Every4th(img) ==
  { pt \in (0..(Dx(img) - 1)) \X (0..(Dy(img) - 1)) :
      pt[1] % 4 = 0 /\ pt[2] % 4 = 0 }

\* calculateFrameMotion.
calculateFrameMotion(img1, img2) ==
  IF Dx(img1) # Dx(img2) \/ Dy(img1) # Dy(img2) THEN 0
  ELSE LET pts == Every4th(img1)
           diff == [pt \in pts |->
                      LET c1 == At(img1, pt[1], pt[2])
                          c2 == At(img2, pt[1], pt[2])
                      IN Abs(c1[1] - c2[1]) + Abs(c1[2] - c2[2])
                           + Abs(c1[3] - c2[3])]
           totalDiff == SumFn(diff, pts)
           pixelCount == Cardinality(pts)
       IN IF pixelCount = 0 THEN 0
          ELSE (totalDiff * Scale) \div (pixelCount * 255)

\* calculateMotionScore.
calculateMotionScore(frames) ==
  IF Len(frames) < 2 THEN 0
  ELSE LET pairs == 2..Len(frames)
           motion == [i \in pairs |->
                        calculateFrameMotion(frames[i - 1], frames[i])]
           totalMotion == SumFn(motion, pairs)
           frameCount == Len(frames) - 1
           averageMotion == totalMotion \div frameCount
       IN Min(averageMotion * 10, Scale)

\* The pixels the loops of calculateFrameTexture visit: from 1, by 2, short
\* of the last row and column.
Centers(img) ==
  { pt \in (1..(Dx(img) - 2)) \X (1..(Dy(img) - 2)) :
      pt[1] % 2 = 1 /\ pt[2] % 2 = 1 }

Neighbors == { d \in {-1, 0, 1} \X {-1, 0, 1} : d # << 0, 0 >> }

\* calculateFrameTexture: the squared 16-bit differences are 66049 times
\* the 8-bit ones, and 66049 / 1e10 is taken as 6605 / 1e9.
calculateFrameTexture(img) ==
  LET pts == Centers(img)
      variance == [pt \in pts |->
        LET c == At(img, pt[1], pt[2])
            sq == [d \in Neighbors |->
                     LET n == At(img, pt[1] + d[1], pt[2] + d[2])
                     IN (c[1] - n[1]) * (c[1] - n[1])
                          + (c[2] - n[2]) * (c[2] - n[2])
                          + (c[3] - n[3]) * (c[3] - n[3])]
        IN SumFn(sq, Neighbors) \div Cardinality(Neighbors)]
      pixelCount == Cardinality(pts)
  IN IF pixelCount = 0 THEN 0
     ELSE ((SumFn(variance, pts) \div pixelCount) * 6605) \div 100000

\* calculateTextureConsistency.
calculateTextureConsistency(frames) ==
  IF Len(frames) = 0 THEN 0
  ELSE LET idx == 1..Len(frames)
           textureScores == [i \in idx |-> calculateFrameTexture(frames[i])]
           mean == SumFn(textureScores, idx) \div Len(frames)
           sq == [i \in idx |->
                    (textureScores[i] - mean) * (textureScores[i] - mean)]
           variance == SumFn(sq, idx) \div Len(frames)
       IN Scale - Min(variance \div 100, Scale)

\* calculateAverageColor.
calculateAverageColor(img) ==
  LET pts == Every4th(img)
      pixelCount == Cardinality(pts)
      total(ch) == SumFn([pt \in pts |->
                            (At(img, pt[1], pt[2])[ch] * Scale) \div 255], pts)
  IN IF pixelCount = 0 THEN << 0, 0, 0 >>
     ELSE << total(1) \div pixelCount, total(2) \div pixelCount,
             total(3) \div pixelCount >>

\* calculateColorConsistency.
calculateColorConsistency(frames) ==
  IF Len(frames) = 0 THEN 0
  ELSE LET idx == 1..Len(frames)
           frameColors == [i \in idx |-> calculateAverageColor(frames[i])]
           meanColor == [ch \in 1..3 |->
             SumFn([i \in idx |-> frameColors[i][ch]], idx) \div Len(frames)]
           sq == [i \in idx |->
             (frameColors[i][1] - meanColor[1]) * (frameColors[i][1] - meanColor[1])
             + (frameColors[i][2] - meanColor[2]) * (frameColors[i][2] - meanColor[2])
             + (frameColors[i][3] - meanColor[3]) * (frameColors[i][3] - meanColor[3])]
           variance == SumFn(sq, idx) \div Len(frames)
       IN Scale - Min(variance \div 1000, Scale)

\* The three signals of detectLiveness.
Signals(frames) ==
  [motion |-> calculateMotionScore(frames),
   texture |-> calculateTextureConsistency(frames),
   color |-> calculateColorConsistency(frames)]

\* totalScore of detectLiveness, in hundredths.
totalScore(frames) ==
  LET sg == Signals(frames)
  IN (sg.motion * 4 + sg.texture * 4 + sg.color * 2) \div 1000

\* The variant of DetectLiveness that takes a single frame for enough.
DetectLivenessOneFrame(frames) ==
  IF Len(frames) < 1
    THEN [err |-> None, isLive |-> FALSE, confidence |-> 0, score |-> 0]
  ELSE LET result == detectLiveness(totalScore(frames))
       IN [err |-> None, isLive |-> result.isLive,
           confidence |-> Min(result.score, 100), score |-> result.score]

\* detectLiveness on a sequence of frames: the models.LivenessResult and
\* the error (always nil).
DetectLiveness(frames) ==
  IF Len(frames) < 2
    THEN [err |-> None, isLive |-> FALSE, confidence |-> 0, score |-> 0]
  ELSE LET result == detectLiveness(totalScore(frames))
       IN [err |-> None, isLive |-> result.isLive,
           confidence |-> Min(result.score, 100), score |-> result.score]

\* The image of w columns and h rows whose pixels all have color c.
Uniform(w, h, c) == [y \in 1..h |-> [x \in 1..w |-> c]]

\* The placeholder of extractFramesFromVideo: the gradient r = x*255/w,
\* g = y*255/h, b = 128 (640x480 in the code, FrameW x FrameH here).
Placeholder ==
  [y \in 1..FrameH |->
     [x \in 1..FrameW |->
        << ((x - 1) * 255) \div FrameW, ((y - 1) * 255) \div FrameH, 128 >>]]

\* The i-th copy of extractFramesFromVideo: noise 2*i is added to the
\* 16-bit channel modulo 65535, and the high byte is kept.
NoiseCopy(img, i) ==
  [y \in 1..Dy(img) |->
     [x \in 1..Dx(img) |->
        [ch \in 1..3 |-> ((257 * img[y][x][ch] + 2 * i) % 65535) \div 256]]]

\* Video data image.Decode cannot read.
NoImage == << >>

\* The bytes of an upload: how many, and the image image.Decode reads from
\* them (NoImage when they are not an image).
VideoData(len, image) == [len |-> len, image |-> image]

\* extractFramesFromVideo: the frames and the error (always nil).
extractFramesFromVideo(videoData) ==
  LET img == IF videoData.image = NoImage THEN Placeholder
             ELSE videoData.image
  IN [err |-> None,
      frames |-> << img >> \o [i \in 1..4 |-> NoiseCopy(img, i)]]


\* ------------------------------------------------------------ the gateway

\* gin.H bodies: the keys of the JSON object, the "code" value and the data.
Body(status, keys, code, data) ==
  [status |-> status, keys |-> keys, code |-> code, data |-> data]

\* A models.VerificationResult and the error VerifyVideo returns with it
\* (err is None for nil).
Result(err, verified, confidence, livenessScore, errorField) ==
  [err |-> err, verified |-> verified, confidence |-> confidence,
   livenessScore |-> livenessScore, error |-> errorField]

\* The zero value of the result.
NoResult == Result(None, FALSE, 0, 0, "")

\* No response written yet.
NoBody == Body(0, {}, None, NoResult)

\* RateLimit's rejection.
TooManyRequests == Body(429, {"error"}, None, NoResult)
\* Recovery's answer to a recovered panic.
InternalServerError == Body(500, {"error"}, None, NoResult)

ErrorBody(status, code) == Body(status, {"error", "code"}, code, NoResult)
ErrorDetails(status, code) ==
  Body(status, {"error", "code", "details"}, code, NoResult)

\* The variant of the /verify validation that leaves the user id unchecked.
VerifyValidateNoUserCheck(in) ==
  IF ~in.form THEN ErrorBody(400, "INVALID_FORM_DATA")
  ELSE IF ~in.hasVideo THEN ErrorBody(400, "MISSING_VIDEO_FILE")
  ELSE IF validateVideoFile(in.size, in.mime) # "ok"
    THEN ErrorBody(400, "INVALID_VIDEO_FILE")
  ELSE IF ~in.readable THEN ErrorBody(500, "FILE_READ_ERROR")
  ELSE NoBody

\* VerificationHandler.VerifyVideo up to the creation of the request: the
\* rejection it answers with, or NoBody when the request goes on.
VerifyValidate(in) ==
  IF ~in.form THEN ErrorBody(400, "INVALID_FORM_DATA")
  ELSE IF ~in.hasVideo THEN ErrorBody(400, "MISSING_VIDEO_FILE")
  ELSE IF validateVideoFile(in.size, in.mime) # "ok"
    THEN ErrorBody(400, "INVALID_VIDEO_FILE")
  ELSE IF ~in.readable THEN ErrorBody(500, "FILE_READ_ERROR")
  ELSE IF in.uid # NoUser /\ ~isValidUserID(in.uid)
    THEN ErrorBody(400, "INVALID_USER_ID")
  ELSE NoBody

\* VerificationHandler.RegisterFace up to the start of the registration.
RegisterValidate(in) ==
  IF ~in.form THEN ErrorBody(400, "INVALID_FORM_DATA")
  ELSE IF ~in.hasVideo THEN ErrorBody(400, "MISSING_VIDEO_FILE")
  ELSE IF in.uid = NoUser THEN ErrorBody(400, "MISSING_USER_ID")
  ELSE IF ~isValidUserID(in.uid) THEN ErrorBody(400, "INVALID_USER_ID")
  ELSE IF validateVideoFile(in.size, in.mime) # "ok"
    THEN ErrorBody(400, "INVALID_VIDEO_FILE")
  ELSE IF ~in.readable THEN ErrorBody(500, "FILE_READ_ERROR")
  ELSE NoBody

Validate(in) ==
  IF in.ep = "verify" THEN VerifyValidate(in) ELSE RegisterValidate(in)

\* ------------------------------------------------------------- the store

\* deriveKey: the key scrypt derives from the configured secret.
deriveKey(password) == <<"scrypt", password, "connect-hub-face-verification-salt">>

EncryptionKey == "secret"

\* encryptData: nonce, ciphertext and tag of the data under the derived
\* key.  damage tells what happened to the bytes since they were written
\* (None: they are as written).
encryptData(data) ==
  [exists |-> TRUE, key |-> deriveKey(EncryptionKey), damage |-> None,
   sealed |-> data]

\* No store file on disk.
NoFile ==
  [exists |-> FALSE, key |-> deriveKey(""), damage |-> None, sealed |-> {}]

\* decryptData: fewer bytes than a nonce are too short; gcm.Open fails
\* unless the bytes are those gcm.Seal produced under the same key, and
\* then yields no plaintext.
decryptData(data) ==
  IF data.damage = "short"
    THEN [err |-> "ciphertext too short", plaintext |-> {}]
  ELSE IF data.key # deriveKey(EncryptionKey) \/ data.damage # None
    THEN [err |-> "message authentication failed", plaintext |-> {}]
  ELSE [err |-> None, plaintext |-> data.sealed]

FaceVector(userID, vector) == [userID |-> userID, vector |-> vector]

\* json.Marshal of the map: the object's members, key and value.
jsonMarshal(store) == { << u, store[u] >> : u \in DOMAIN store }

\* json.Unmarshal of an object into the (empty) map.
jsonUnmarshal(data) ==
  [u \in { m[1] : m \in data } |-> (CHOOSE m \in data : m[1] = u)[2]]

\* faceVectors[userID] = append(faceVectors[userID], vector)
Append1(store, userID, vector) ==
  [u \in DOMAIN store \cup {userID} |->
     IF u = userID
       THEN (IF u \in DOMAIN store THEN store[u] ELSE << >>)
              \o << FaceVector(userID, vector) >>
       ELSE store[u]]

\* The map that holds userVectors for userID and nothing else.
Put(userID, userVectors) == [u \in {userID} |-> userVectors]

RECURSIVE SumLen(_, _)
SumLen(store, keys) ==
  IF keys = {} THEN 0
  ELSE LET k == CHOOSE x \in keys : TRUE
       IN Len(store[k]) + SumLen(store, keys \ {k})

\* Number of embeddings a store holds.
Enrolled(store) == SumLen(store, DOMAIN store)


\* The variant of loadFaceVectors that decodes what it finds in a file that
\* fails to decrypt.
loadFaceVectorsBestEffort(file) ==
  IF ~file.exists THEN [err |-> None, faceVectors |-> [u \in {} |-> << >>]]
  ELSE IF file.damage = "unreadable"
    THEN [err |-> "read failed", faceVectors |-> [u \in {} |-> << >>]]
  ELSE [err |-> decryptData(file).err,
        faceVectors |-> jsonUnmarshal(file.sealed)]

\* loadFaceVectors on the store file: the error it returns and the map it
\* leaves in the service, which was empty before.
loadFaceVectors(file) ==
  IF ~file.exists THEN [err |-> None, faceVectors |-> [u \in {} |-> << >>]]
  ELSE IF file.damage = "unreadable"
    THEN [err |-> "read failed", faceVectors |-> [u \in {} |-> << >>]]
  ELSE IF decryptData(file).err # None
    THEN [err |-> decryptData(file).err,
          faceVectors |-> [u \in {} |-> << >>]]
  ELSE [err |-> None,
        faceVectors |-> jsonUnmarshal(decryptData(file).plaintext)]

\* ---------------------------------------------------------------- inputs

FaceA == << 3, 4 >>
FaceB == << 5, 0 >>

Face(area, descriptor) == [area |-> area, descriptor |-> descriptor]

\* What the image pipeline computes from an upload.
Video(score, faces) == [score |-> score, faces |-> faces]

LiveA == Video(90, << Face(4, FaceA) >>)
LiveB == Video(90, << Face(4, FaceB) >>)
NotLive == Video(60, << Face(4, FaceA) >>)
NoFace == Video(90, << >>)

\* The user id "u1".
U1 == << 117, 49 >>

\* An HTTP request: the route, whether the multipart form parses, whether it
\* has a "video" part, the part's size and Content-Type, whether the part
\* can be read, the user_id field and the upload.
Input(ep, form, hasVideo, size, mime, readable, uid, video) ==
  [ep |-> ep, form |-> form, hasVideo |-> hasVideo, size |-> size,
   mime |-> mime, readable |-> readable, uid |-> uid, video |-> video]

NoReq == Input(None, FALSE, FALSE, 0, "", FALSE, NoUser, NoFace)

HealthReq == Input("health", FALSE, FALSE, 0, "", FALSE, NoUser, NoFace)

\* Well-formed uploads of every kind of video, with and without a user id.
Inputs ==
  { Input(ep, TRUE, TRUE, 2048, "video/webm", TRUE, uid, v) :
      ep \in {"verify", "register"}, uid \in {NoUser, U1},
      v \in {LiveA, LiveB, NotLive, NoFace} }
  \cup {HealthReq}

\* The user id made of n bytes c.
Rep(c, n) == [i \in 1..n |-> c]

\* User ids: none, "a", "abc 123", "A-z_09", 64 and 65 letters, a two-byte
\* rune, and the bytes next to the allowed ranges.
UserIDs ==
  { NoUser, << 97 >>, << 97, 98, 99, 32, 49, 50, 51 >>,
    << 65, 45, 122, 95, 48, 57 >>, Rep(97, MaxUserIDLen),
    Rep(97, MaxUserIDLen + 1), << 195, 169 >>, << 97, 123 >>, << 64 >>,
    << 91 >>, << 96 >>, << 47 >>, << 58 >> }

\* Upload sizes at and around the limits.
Sizes ==
  { 0, MinVideoSize - 1, MinVideoSize, MinVideoSize + 1, MaxVideoSize - 1,
    MaxVideoSize, MaxVideoSize + 1 }

ContentTypes == { "video/webm", "image/png", "text/plain", "" }

\* Requests of every shape the validation tells apart.
WideInputs ==
  { Input(ep, form, hasVideo, size, mime, readable, uid, LiveA) :
      ep \in {"verify", "register"}, form \in BOOLEAN, hasVideo \in BOOLEAN,
      size \in Sizes, mime \in ContentTypes, readable \in BOOLEAN,
      uid \in UserIDs }

\* The requests of the one-at-a-time specification.
AllInputs == Inputs \cup WideInputs

\* The uploads of the concurrent specification.
ConcurrentInputs ==
  { Input(ep, TRUE, TRUE, 2048, "video/webm", TRUE, U1, v) :
      ep \in {"verify", "register"}, v \in {LiveA, NoFace} }
  \cup {HealthReq}

\* ----------------------------------------------------------------- state

VARIABLES
  alive,         \* the process has not terminated
  tokens,        \* tokens left in RateLimit's bucket
  faceVectors,   \* FaceVerificationService.faceVectors
  diskFile,      \* face_vectors.enc
  storageMutex,  \* 0, or the request whose worker holds storageMutex.Lock
  req,           \* the request each context serves
  hpc,           \* the handler goroutine: idle, select, done
  resp,          \* the response written to the caller
  hch,           \* the handler's resultChan / errChan
  wpc,           \* the worker goroutine running VerifyVideo / RegisterFace
  fch,           \* the frame extraction goroutine and framesChan
  lch,           \* the liveness goroutine and livenessChan
  vch,           \* the embedding goroutine and vectorChan / vectorErrChan
  vres,          \* what VerifyVideo returned
  snap,          \* the map saveFaceVectors serialized
  now,           \* the reading of time.Now().UnixNano()
  vid,           \* the VerificationID of the VerifyVideo of each context
  win,           \* a one-minute window under observation at the limiter
  call           \* the last direct call of a function of the service

vars == << alive, tokens, faceVectors, diskFile, storageMutex, req, hpc,
           resp, hch, wpc, fch, lch, vch, vres, snap, now, vid, win, call >>

Req == 1..MaxReq

EmptyStore == [u \in {} |-> << >>]

\* Stores a previous run may have left on disk.
InitStores == { EmptyStore, Append1(EmptyStore, U1, FaceA) }

\* The store files of those runs: none for the empty store.
InitFiles ==
  { IF store = EmptyStore THEN NoFile ELSE encryptData(jsonMarshal(store)) :
      store \in InitStores }

\* fmt.Sprintf("ver_%d", time.Now().UnixNano())
VerificationID(t) == [prefix |-> "ver_", token |-> t]
\* The id of a context in which no VerifyVideo has started.
NoId == [prefix |-> "", token |-> 0]

\* No minute is under observation.
NoWindow == [open |-> FALSE, left |-> 0, admitted |-> 0]

\* No function has been called directly.
NoCall == [fn |-> None]

\* A message on one of the handler's channels (err is None for nil).
Msg(chan, err) == [chan |-> chan, err |-> err]
NoMsg == Msg(None, None)

\* NewFaceVerificationService: the map is what loadFaceVectors reads.
Init ==
  /\ alive = TRUE
  /\ tokens = Burst
  /\ diskFile \in InitFiles
  /\ faceVectors = loadFaceVectors(diskFile).faceVectors
  /\ storageMutex = 0
  /\ req = [r \in Req |-> NoReq]
  /\ hpc = [r \in Req |-> "idle"]
  /\ resp = [r \in Req |-> NoBody]
  /\ hch = [r \in Req |-> NoMsg]
  /\ wpc = [r \in Req |-> None]
  /\ fch = [r \in Req |-> None]
  /\ lch = [r \in Req |-> None]
  /\ vch = [r \in Req |-> None]
  /\ vres = [r \in Req |-> NoResult]
  /\ snap = [r \in Req |-> EmptyStore]
  /\ now = 0
  /\ vid = [r \in Req |-> NoId]
  /\ win = NoWindow
  /\ call = NoCall

storeVars == << faceVectors, diskFile, storageMutex, snap >>
clockVars == << now, vid >>
\* What the goroutines of a request leave alone.
otherVars == << tokens, win, clockVars, call >>
taskVars == << fch, lch, vch >>


\* --------------------------------------------------- the handler goroutine

\* Context r is free, and the free contexts are taken in order.
Free(r) ==
  /\ alive
  /\ hpc[r] = "idle"
  /\ \A q \in 1..(r - 1) : hpc[q] # "idle"

\* The handler answers at once and returns.
Answer(r, in, body) ==
  /\ req' = [req EXCEPT ![r] = in]
  /\ resp' = [resp EXCEPT ![r] = body]
  /\ hpc' = [hpc EXCEPT ![r] = "done"]
  /\ UNCHANGED << alive, storeVars, taskVars, hch, wpc, vres, clockVars, call >>

\* The handler starts its worker goroutine, whose VerifyVideo starts the
\* frame extraction goroutine, and waits in its select.
Spawn(r, in) ==
  /\ req' = [req EXCEPT ![r] = in]
  /\ hpc' = [hpc EXCEPT ![r] = "select"]
  /\ wpc' = [wpc EXCEPT ![r] = "frames"]
  /\ fch' = [fch EXCEPT ![r] = "run"]
  /\ vid' = [vid EXCEPT ![r] = VerificationID(now)]
  /\ UNCHANGED << alive, storeVars, resp, hch, lch, vch, vres, now, call >>

\* limiter.Allow(): a token is there.
Allow == tokens > 0

\* limiter.Allow() takes the token; the admission counts in the minute
\* under observation.
Take ==
  /\ tokens' = tokens - 1
  /\ win' = IF win.open THEN [win EXCEPT !.admitted = @ + 1] ELSE win

\* middleware.RateLimit: limiter.Allow() fails, the request is aborted.
RateLimit(r, ins) ==
  /\ Free(r)
  /\ ~Allow
  /\ UNCHANGED << tokens, win >>
  /\ \E in \in ins : Answer(r, in, TooManyRequests)

\* middleware.Recovery: a panic in the handler goroutine is recovered.
Recovery(r, ins) ==
  /\ Free(r)
  /\ Allow
  /\ Take
  /\ \E in \in ins : Answer(r, in, InternalServerError)

\* GET /health.
Health(r, ins) ==
  /\ Free(r)
  /\ Allow
  /\ Take
  /\ \E in \in ins :
       /\ in.ep = "health"
       /\ Answer(r, in, Body(200, {"status", "timestamp"}, None, NoResult))

\* Registrations that may still append to the store.
RegPending ==
  { q \in Req : req[q].ep = "register"
                  /\ wpc[q] \in {"frames", "join", "merge", "embed", "locked"} }

\* VerificationHandler.VerifyVideo, to its select.
HandleVerifyVideo(r, ins) ==
  /\ Free(r)
  /\ Allow
  /\ Take
  /\ \E in \in ins :
       /\ in.ep = "verify"
       /\ IF VerifyValidate(in).status # 0
            THEN Answer(r, in, VerifyValidate(in))
            ELSE Spawn(r, in)

\* VerificationHandler.RegisterFace, to its select.
HandleRegisterFace(r, ins) ==
  /\ Free(r)
  /\ Allow
  /\ Take
  /\ \E in \in ins :
       /\ in.ep = "register"
       /\ IF RegisterValidate(in).status # 0
            THEN Answer(r, in, RegisterValidate(in))
            ELSE /\ Enrolled(faceVectors) + Cardinality(RegPending) < MaxEnroll
                 /\ Spawn(r, in)

\* The answer of the handler's resultChan and errChan cases.
RecvAnswer(r) ==
  IF req[r].ep = "verify"
    THEN IF hch[r].chan = "resultChan"
           THEN Body(200, {"success", "data"}, None, vres[r])
           ELSE ErrorDetails(500, "VERIFICATION_FAILED")
    ELSE IF hch[r].err # None
           THEN ErrorDetails(500, "REGISTRATION_FAILED")
           ELSE Body(200, {"success", "message", "user_id", "timestamp"},
                     None, NoResult)

\* The variant of the receive that still takes the worker's message after
\* the handler has answered.
HandlerRecvLate(r) ==
  /\ alive
  /\ hpc[r] \in {"select", "done"}
  /\ hch[r].chan # None
  /\ hch' = [hch EXCEPT ![r] = NoMsg]
  /\ hpc' = [hpc EXCEPT ![r] = "done"]
  /\ resp' = [resp EXCEPT ![r] = RecvAnswer(r)]
  /\ UNCHANGED << alive, otherVars, storeVars, taskVars, req, wpc, vres >>

\* The handler's select receives from resultChan or errChan.
HandlerRecv(r) ==
  /\ alive
  /\ hpc[r] = "select"
  /\ hch[r].chan # None
  /\ hch' = [hch EXCEPT ![r] = NoMsg]
  /\ hpc' = [hpc EXCEPT ![r] = "done"]
  /\ resp' = [resp EXCEPT ![r] = RecvAnswer(r)]
  /\ UNCHANGED << alive, otherVars, storeVars, taskVars, req, wpc, vres >>

\* The answer of the handler's time.After(30 * time.Second) case.
TimeoutAnswer(r) ==
  IF req[r].ep = "verify"
    THEN ErrorBody(408, "VERIFICATION_TIMEOUT")
    ELSE ErrorBody(408, "REGISTRATION_TIMEOUT")

\* The variant of the handler's timeout that cancels the worker and its
\* tasks.
HandlerTimeoutCancels(r) ==
  /\ alive
  /\ hpc[r] = "select"
  /\ hpc' = [hpc EXCEPT ![r] = "done"]
  /\ resp' = [resp EXCEPT ![r] = TimeoutAnswer(r)]
  /\ wpc' = [wpc EXCEPT ![r] = "finished"]
  /\ storageMutex' = IF storageMutex = r THEN 0 ELSE storageMutex
  /\ UNCHANGED << alive, otherVars, faceVectors, diskFile, snap, taskVars,
                  req, hch, vres >>

\* The handler's select takes the time.After(30 * time.Second) case.
HandlerTimeout(r) ==
  /\ alive
  /\ hpc[r] = "select"
  /\ hpc' = [hpc EXCEPT ![r] = "done"]
  /\ resp' = [resp EXCEPT ![r] = TimeoutAnswer(r)]
  /\ UNCHANGED << alive, otherVars, storeVars, taskVars, req, hch, wpc, vres >>


\* ------------------------------------------- the orchestrator's goroutines

\* The variant of the frame extraction goroutine whose channel has no
\* buffer: the send waits for VerifyVideo to be in its select.
ExtractFramesUnbuffered(r) ==
  /\ alive
  /\ fch[r] = "run"
  /\ wpc[r] = "frames"
  /\ fch' = [fch EXCEPT ![r] = "full"]
  /\ UNCHANGED << alive, otherVars, storeVars, req, hpc, resp, hch, wpc, lch,
                  vch, vres >>

\* go func() { frames, err := s.extractFramesFromVideo(...) }: the frames
\* (always five, never an error) are sent on framesChan.
ExtractFrames(r) ==
  /\ alive
  /\ fch[r] = "run"
  /\ fch' = [fch EXCEPT ![r] = "full"]
  /\ UNCHANGED << alive, otherVars, storeVars, req, hpc, resp, hch, wpc, lch,
                  vch, vres >>

\* go func() { result, err := s.detectLiveness(frames) }: the result (never
\* an error) is sent on livenessChan.
LivenessTask(r) ==
  /\ alive
  /\ lch[r] = "run"
  /\ lch' = [lch EXCEPT ![r] = "full"]
  /\ UNCHANGED << alive, otherVars, storeVars, req, hpc, resp, hch, wpc, fch,
                  vch, vres >>

\* go func() { vector, err := s.generateFaceVector(frames[0]) }: the vector
\* is sent on vectorChan, or the error on vectorErrChan.
VectorTask(r) ==
  /\ alive
  /\ vch[r] = "run"
  /\ vch' = [vch EXCEPT ![r] =
       IF generateFaceVector(req[r].video.faces).err = None
         THEN "full" ELSE "err"]
  /\ UNCHANGED << alive, otherVars, storeVars, req, hpc, resp, hch, wpc, fch,
                  lch, vres >>

\* The runtime ends the process: its goroutines and its memory are gone;
\* the store file and what the callers were sent remain.
Crash ==
  /\ alive' = FALSE
  /\ tokens' = 0
  /\ faceVectors' = EmptyStore
  /\ storageMutex' = 0
  /\ hch' = [q \in Req |-> NoMsg]
  /\ wpc' = [q \in Req |-> None]
  /\ fch' = [q \in Req |-> None]
  /\ lch' = [q \in Req |-> None]
  /\ vch' = [q \in Req |-> None]
  /\ vres' = [q \in Req |-> NoResult]
  /\ snap' = [q \in Req |-> EmptyStore]
  /\ vid' = [q \in Req |-> NoId]
  /\ UNCHANGED << diskFile, req, hpc, resp, now, win, call >>

\* A panic in a goroutine the handler or VerifyVideo started: no deferred
\* recover is on its stack, and the runtime ends the process.
GoroutinePanic(r) ==
  /\ alive
  /\ \/ wpc[r] \notin {None, "finished"}
     \/ fch[r] = "run"
     \/ lch[r] = "run"
     \/ vch[r] = "run"
  /\ Crash

\* ---------------------------------------------------- the worker goroutine

\* RegisterFace after its VerifyVideo returned res: the error it returns at
\* once (None when it goes on to store the vector).
RegisterCheck(res) ==
  IF res.err # None THEN res.err
  ELSE IF ~res.verified THEN "face verification failed"
  ELSE None

\* VerifyVideo returns res.  The worker of /verify sends it to the handler;
\* RegisterFace returns its error to the worker of /register, which sends it,
\* or goes on.
Return(r, res) ==
  /\ vres' = [vres EXCEPT ![r] = res]
  /\ IF req[r].ep = "verify"
       THEN /\ hch' = [hch EXCEPT ![r] =
                 IF res.err = None THEN Msg("resultChan", None)
                 ELSE Msg("errChan", res.err)]
            /\ wpc' = [wpc EXCEPT ![r] = "finished"]
       ELSE IF RegisterCheck(res) # None
         THEN /\ hch' = [hch EXCEPT ![r] = Msg("errChan", RegisterCheck(res))]
              /\ wpc' = [wpc EXCEPT ![r] = "finished"]
         ELSE /\ hch' = hch
              /\ wpc' = [wpc EXCEPT ![r] = "embed"]

\* case frames := <-framesChan: the two analyses are started.
RecvFrames(r) ==
  /\ alive
  /\ wpc[r] = "frames"
  /\ fch[r] = "full"
  /\ fch' = [fch EXCEPT ![r] = "taken"]
  /\ lch' = [lch EXCEPT ![r] = "run"]
  /\ vch' = [vch EXCEPT ![r] = "run"]
  /\ wpc' = [wpc EXCEPT ![r] = "join"]
  /\ UNCHANGED << alive, otherVars, storeVars, req, hpc, resp, hch, vres >>

\* case <-time.After(2 * time.Second)
FrameTimeout(r) ==
  /\ alive
  /\ wpc[r] = "frames"
  /\ Return(r, Result("frame extraction timeout", FALSE, 0, 0,
                      "Frame extraction timeout"))
  /\ UNCHANGED << alive, otherVars, storeVars, taskVars, req, hpc, resp >>

\* The variant of the receive from livenessChan that takes the liveness
\* result for the whole join.
RecvLivenessAlone(r) ==
  /\ alive
  /\ wpc[r] = "join"
  /\ lch[r] = "full"
  /\ lch' = [lch EXCEPT ![r] = "taken"]
  /\ wpc' = [wpc EXCEPT ![r] = "merge"]
  /\ UNCHANGED << alive, otherVars, storeVars, req, hpc, resp, hch, fch, vch,
                  vres >>

\* case livenessResult = <-livenessChan
RecvLiveness(r) ==
  /\ alive
  /\ wpc[r] = "join"
  /\ lch[r] = "full"
  /\ lch' = [lch EXCEPT ![r] = "taken"]
  /\ wpc' = [wpc EXCEPT ![r] = IF vch[r] = "taken" THEN "merge" ELSE "join"]
  /\ UNCHANGED << alive, otherVars, storeVars, req, hpc, resp, hch, fch, vch,
                  vres >>

\* case faceVector = <-vectorChan
RecvVector(r) ==
  /\ alive
  /\ wpc[r] = "join"
  /\ vch[r] = "full"
  /\ vch' = [vch EXCEPT ![r] = "taken"]
  /\ wpc' = [wpc EXCEPT ![r] = IF lch[r] = "taken" THEN "merge" ELSE "join"]
  /\ UNCHANGED << alive, otherVars, storeVars, req, hpc, resp, hch, fch, lch,
                  vres >>

\* The variant of the receive from vectorErrChan that goes on without an
\* embedding.
RecvVectorErrIgnored(r) ==
  /\ alive
  /\ wpc[r] = "join"
  /\ vch[r] = "err"
  /\ vch' = [vch EXCEPT ![r] = "taken"]
  /\ wpc' = [wpc EXCEPT ![r] = IF lch[r] = "taken" THEN "merge" ELSE "join"]
  /\ UNCHANGED << alive, otherVars, storeVars, req, hpc, resp, hch, fch, lch,
                  vres >>

\* case err := <-vectorErrChan
RecvVectorErr(r) ==
  /\ alive
  /\ wpc[r] = "join"
  /\ vch[r] = "err"
  /\ vch' = [vch EXCEPT ![r] = "taken"]
  /\ Return(r, Result(generateFaceVector(req[r].video.faces).err, FALSE, 0, 0,
                      "Face vector generation failed"))
  /\ UNCHANGED << alive, otherVars, storeVars, req, hpc, resp, fch, lch >>

\* case <-timeout (time.After(1 * time.Second), set before the loop)
JoinTimeout(r) ==
  /\ alive
  /\ wpc[r] = "join"
  /\ Return(r, Result("processing timeout", FALSE, 0, 0, "Processing timeout"))
  /\ UNCHANGED << alive, otherVars, storeVars, taskVars, req, hpc, resp >>

\* The variant of the decision without the liveness gate.
DecideNoGate(store, in) ==
  LET liveness == detectLiveness(in.video.score)
      faceVector == generateFaceVector(in.video.faces).vector
  IN IF in.uid # NoUser
       THEN LET confidence == checkForDuplicates(store, in.uid, faceVector)
            IN Result(None, confidence >= SimilarityThreshold, confidence,
                      liveness.score, "")
     ELSE Result(None, TRUE, 100, liveness.score, "")

\* VerifyVideo after both analyses arrived: the liveness gate and the match
\* against the store.
Decide(store, in) ==
  LET liveness == detectLiveness(in.video.score)
      faceVector == generateFaceVector(in.video.faces).vector
  IN IF ~liveness.isLive
       THEN Result(None, FALSE, 0, liveness.score, "")
     ELSE IF in.uid # NoUser
       THEN LET confidence == checkForDuplicates(store, in.uid, faceVector)
            IN Result(None, confidence >= SimilarityThreshold, confidence,
                      liveness.score, "")
     ELSE Result(None, TRUE, 100, liveness.score, "")

\* VerifyVideo run to its end with no timer firing: the embedding error
\* ends the join, otherwise the merge decides.
VerifyVideo(store, in) ==
  IF generateFaceVector(in.video.faces).err # None
    THEN Result(generateFaceVector(in.video.faces).err, FALSE, 0, 0,
                "Face vector generation failed")
  ELSE Decide(store, in)

\* The merge step.  checkForDuplicates reads the map under RLock, which
\* waits while a registration holds the lock.
Merge(r) ==
  /\ alive
  /\ wpc[r] = "merge"
  /\ (detectLiveness(req[r].video.score).isLive /\ req[r].uid # NoUser)
       => storageMutex = 0
  /\ Return(r, Decide(faceVectors, req[r]))
  /\ UNCHANGED << alive, otherVars, storeVars, taskVars, req, hpc, resp >>


\* ----------------------------------------------------------- registration

\* RegisterFace extracts the frames and the vector again and takes
\* storageMutex.Lock().
RegLock(r) ==
  /\ alive
  /\ wpc[r] = "embed"
  /\ IF generateFaceVector(req[r].video.faces).err # None
       THEN /\ hch' = [hch EXCEPT ![r] =
                 Msg("errChan", generateFaceVector(req[r].video.faces).err)]
            /\ wpc' = [wpc EXCEPT ![r] = "finished"]
            /\ UNCHANGED storageMutex
       ELSE /\ storageMutex = 0
            /\ storageMutex' = r
            /\ wpc' = [wpc EXCEPT ![r] = "locked"]
            /\ UNCHANGED hch
  /\ UNCHANGED << alive, otherVars, faceVectors, diskFile, snap, taskVars, req,
                  hpc, resp, vres >>

\* s.faceVectors[userID] = append(s.faceVectors[userID], vector), then
\* storageMutex.Unlock().
RegAppend(r) ==
  /\ alive
  /\ wpc[r] = "locked"
  /\ faceVectors' = Append1(faceVectors, req[r].uid,
                            generateFaceVector(req[r].video.faces).vector)
  /\ storageMutex' = 0
  /\ wpc' = [wpc EXCEPT ![r] = "marshal"]
  /\ UNCHANGED << alive, otherVars, diskFile, snap, taskVars, req, hpc, resp,
                  hch, vres >>

\* What json.Marshal(s.faceVectors) can yield.  It reads the map without
\* the lock: while another registration is between Lock and Unlock the read
\* races with its append and sees the map before it, after it, or is ended
\* by the runtime (concurrent map read and map write).
MarshalViews(r) ==
  IF storageMutex \in Req \ {r}
    THEN { [fatal |-> FALSE, data |-> faceVectors],
           [fatal |-> FALSE,
            data |-> Append1(faceVectors, req[storageMutex].uid,
                       generateFaceVector(req[storageMutex].video.faces).vector)],
           [fatal |-> TRUE, data |-> faceVectors] }
    ELSE { [fatal |-> FALSE, data |-> faceVectors] }

\* saveFaceVectors: json.Marshal of the map.
SaveMarshal(r) ==
  /\ alive
  /\ wpc[r] = "marshal"
  /\ \E view \in MarshalViews(r) :
       IF view.fatal
         THEN Crash
         ELSE /\ snap' = [snap EXCEPT ![r] = view.data]
              /\ wpc' = [wpc EXCEPT ![r] = "write"]
              /\ UNCHANGED << alive, otherVars, faceVectors, diskFile,
                              storageMutex, taskVars, req, hpc, resp, hch,
                              vres >>

\* saveFaceVectors: encryptData and os.WriteFile, either of which may fail;
\* RegisterFace returns the outcome and the worker sends it on errChan.
SaveWrite(r) ==
  /\ alive
  /\ wpc[r] = "write"
  /\ \E ok \in BOOLEAN :
       /\ diskFile' = IF ok THEN encryptData(jsonMarshal(snap[r]))
                      ELSE diskFile
       /\ hch' = [hch EXCEPT ![r] =
            Msg("errChan", IF ok THEN None ELSE "save failed")]
  /\ wpc' = [wpc EXCEPT ![r] = "finished"]
  /\ UNCHANGED << alive, otherVars, faceVectors, storageMutex, snap, taskVars,
                  req, hpc, resp, vres >>

\* ------------------------------------------------------------ environment

\* The request is over and all its goroutines have ended: the context
\* serves the next request.
Release(r) ==
  /\ alive
  /\ hpc[r] = "done"
  /\ wpc[r] \in {None, "finished"}
  /\ fch[r] # "run" /\ lch[r] # "run" /\ vch[r] # "run"
  /\ req' = [req EXCEPT ![r] = NoReq]
  /\ hpc' = [hpc EXCEPT ![r] = "idle"]
  /\ resp' = [resp EXCEPT ![r] = NoBody]
  /\ hch' = [hch EXCEPT ![r] = NoMsg]
  /\ wpc' = [wpc EXCEPT ![r] = None]
  /\ fch' = [fch EXCEPT ![r] = None]
  /\ lch' = [lch EXCEPT ![r] = None]
  /\ vch' = [vch EXCEPT ![r] = None]
  /\ vres' = [vres EXCEPT ![r] = NoResult]
  /\ snap' = [snap EXCEPT ![r] = EmptyStore]
  /\ vid' = [vid EXCEPT ![r] = NoId]
  /\ UNCHANGED << alive, tokens, win, now, call, faceVectors, diskFile,
                  storageMutex >>

\* A refill interval passes (rate.Every(time.Minute/60)): the limiter gains
\* a token unless the bucket is full, and the minute under observation has
\* one interval less to go; it is over with its last interval.
Refill ==
  /\ alive
  /\ tokens < Burst \/ win.open
  /\ tokens' = IF tokens < Burst THEN tokens + 1 ELSE tokens
  /\ win' = IF ~win.open THEN win
            ELSE IF win.left = 1 THEN NoWindow
            ELSE [win EXCEPT !.left = @ - 1]
  /\ UNCHANGED << alive, storeVars, taskVars, req, hpc, resp, hch, wpc, vres,
                  clockVars, call >>

\* An observer starts to count the admissions of the minute that begins.
OpenWindow ==
  /\ alive
  /\ ~win.open
  /\ win' = [open |-> TRUE, left |-> Burst, admitted |-> 0]
  /\ UNCHANGED << alive, tokens, storeVars, taskVars, req, hpc, resp, hch,
                  wpc, vres, clockVars, call >>

\* The clock moves on to its next reading.
Tick ==
  /\ alive
  /\ now < MaxClock
  /\ now' = now + 1
  /\ UNCHANGED << alive, tokens, win, storeVars, taskVars, req, hpc, resp,
                  hch, wpc, vres, vid, call >>

\* main returns after a signal: srv.Shutdown has waited for the handlers,
\* and the goroutines they left behind end with the process.
Shutdown ==
  /\ alive
  /\ \A r \in Req : hpc[r] # "select"
  /\ Crash

\* What can happen to the bytes of the store file between two runs.
Damages == { "unreadable", "short", "truncated", "tampered" }

\* Between two runs the store file is removed, damaged, or replaced by one
\* sealed under another key.
DamageFile ==
  /\ ~alive
  /\ diskFile.exists
  /\ diskFile.damage = None
  /\ diskFile.key = deriveKey(EncryptionKey)
  /\ \/ diskFile' = NoFile
     \/ \E d \in Damages : diskFile' = [diskFile EXCEPT !.damage = d]
     \/ diskFile' = [diskFile EXCEPT !.key = deriveKey("another secret")]
  /\ UNCHANGED << alive, tokens, win, faceVectors, storageMutex, snap,
                  taskVars, req, hpc, resp, hch, wpc, vres, clockVars, call >>

\* The service is started again: main and NewFaceVerificationService, whose
\* loadFaceVectors fills the fresh map; an error of the load is logged.
Restart ==
  /\ ~alive
  /\ alive' = TRUE
  /\ tokens' = Burst
  /\ faceVectors' = loadFaceVectors(diskFile).faceVectors
  /\ req' = [r \in Req |-> NoReq]
  /\ hpc' = [r \in Req |-> "idle"]
  /\ resp' = [r \in Req |-> NoBody]
  /\ UNCHANGED << diskFile, storageMutex, snap, taskVars, hch, wpc, vres,
                  clockVars, win, call >>

\* RegisterFace(userID, videoData) on a service whose map is store, run to
\* its end with no timer firing and no failure of the save: the error it
\* returns and the map it leaves.
RegisterFace(store, userID, video) ==
  LET in == Input("register", TRUE, TRUE, 2048, "video/webm", TRUE, userID,
                  video)
      err == RegisterCheck(VerifyVideo(store, in))
  IN IF err # None THEN [err |-> err, faceVectors |-> store]
     ELSE [err |-> None,
           faceVectors |-> Append1(store, userID,
                                   generateFaceVector(video.faces).vector)]

\* ------------------------------------------------------------ direct calls

Black == << 0, 0, 0 >>
Red == << 137, 0, 0 >>
Gray == << 128, 128, 128 >>
White == << 255, 255, 255 >>

\* The image of FrameW x FrameH pixels of color c with a center of color d.
Spot(c, d) ==
  [y \in 1..FrameH |->
     [x \in 1..FrameW |-> IF x = 2 /\ y = 2 THEN d ELSE c]]

\* Images: single pixels, plain and textured frames, the placeholder.
Images ==
  { Uniform(1, 1, Black), Uniform(1, 1, Red), Uniform(FrameW, FrameH, Gray),
    Uniform(FrameW, FrameH, White), Spot(Gray, White), Placeholder }

\* Uploads: no bytes, bytes that are no image, and encoded images.
VideoDatas ==
  { VideoData(0, NoImage), VideoData(27, NoImage) }
  \cup { VideoData(2048, img) : img \in Images }

\* Frame sequences: up to MaxFrames images, and what extractFramesFromVideo
\* makes of the uploads.
FrameSeqs ==
  UNION { [1..n -> Images] : n \in 0..MaxFrames }
  \cup { extractFramesFromVideo(d).frames : d \in VideoDatas }

\* Embeddings of norm 5, at cosines 1, 0.96, 0.6, 0, -0.6 and -1 of FaceA.
Embeddings ==
  { FaceA, << 4, 3 >>, FaceB, << 4, -3 >>, << -5, 0 >>, << -3, -4 >> }

\* Vectors: embeddings, zero vectors, the empty vector, another length.
Vectors == Embeddings \cup { << >>, << 0, 0 >>, << 0, 0, 0 >>, << 3, 4, 0 >> }

\* What an identity has stored: up to MaxStored embeddings.
StoredVectors ==
  UNION { [1..n -> { FaceVector(U1, e) : e \in Embeddings }] :
            n \in 0..MaxStored }

\* What the detector returns for a frame: up to two faces, in any order.
FaceLists ==
  UNION { [1..n -> { Face(4, FaceA), Face(9, FaceB) }] : n \in 0..2 }

\* What a direct call leaves alone.
serviceVars ==
  << alive, tokens, win, storeVars, taskVars, req, hpc, resp, hch, wpc, vres,
     clockVars >>

\* extractFramesFromVideo(videoData)
CallExtractFrames ==
  /\ call = NoCall
  /\ \E d \in VideoDatas :
       call' = [fn |-> "extractFramesFromVideo", videoData |-> d,
                out |-> extractFramesFromVideo(d)]
  /\ UNCHANGED serviceVars

\* detectLiveness(frames)
CallDetectLiveness ==
  /\ call = NoCall
  /\ \E f \in FrameSeqs :
       call' = [fn |-> "detectLiveness", frames |-> f,
                signals |-> Signals(f), out |-> DetectLiveness(f)]
  /\ UNCHANGED serviceVars

\* generateFaceVector(frame), for each answer of the detector
CallGenerateFaceVector ==
  /\ call = NoCall
  /\ \E faces \in FaceLists :
       call' = [fn |-> "generateFaceVector", faces |-> faces,
                out |-> generateFaceVector(faces)]
  /\ UNCHANGED serviceVars

\* checkForDuplicates(userID, newVector) on a service whose map holds
\* userVectors for the identity
CallCheckForDuplicates ==
  /\ call = NoCall
  /\ \E userVectors \in StoredVectors, newVector \in Embeddings :
       call' = [fn |-> "checkForDuplicates", userVectors |-> userVectors,
                newVector |-> newVector,
                out |-> checkForDuplicates(Put(U1, userVectors), U1,
                                           newVector)]
  /\ UNCHANGED serviceVars

\* cosineSimilarity(a, b)
CallCosineSimilarity ==
  /\ call = NoCall
  /\ \E a \in Vectors, b \in Vectors :
       call' = [fn |-> "cosineSimilarity", a |-> a, b |-> b,
                out |-> cosineSimilarity(a, b)]
  /\ UNCHANGED serviceVars

\* RegisterFace(userID, videoData) on a service with each initial map
CallRegisterFace ==
  /\ call = NoCall
  /\ \E store \in InitStores, userID \in {NoUser, U1},
        video \in {LiveA, LiveB, NotLive, NoFace} :
       call' = [fn |-> "RegisterFace", store |-> store, userID |-> userID,
                video |-> video, out |-> RegisterFace(store, userID, video)]
  /\ UNCHANGED serviceVars

\* The direct call returns to its caller.
CallReturn ==
  /\ call # NoCall
  /\ call' = NoCall
  /\ UNCHANGED serviceVars

\* ------------------------------------------------------- specifications

Gateway(r, ins) ==
  \/ RateLimit(r, ins)
  \/ Recovery(r, ins)
  \/ Health(r, ins)
  \/ HandleVerifyVideo(r, ins)
  \/ HandleRegisterFace(r, ins)

Internal(r) ==
  \/ HandlerRecv(r)
  \/ HandlerTimeout(r)
  \/ ExtractFrames(r)
  \/ LivenessTask(r)
  \/ VectorTask(r)
  \/ GoroutinePanic(r)
  \/ RecvFrames(r)
  \/ FrameTimeout(r)
  \/ RecvLiveness(r)
  \/ RecvVector(r)
  \/ RecvVectorErr(r)
  \/ JoinTimeout(r)
  \/ Merge(r)
  \/ RegLock(r)
  \/ RegAppend(r)
  \/ SaveMarshal(r)
  \/ SaveWrite(r)
  \/ Release(r)

\* One request at a time, of every shape.
Next ==
  \/ Gateway(1, AllInputs)
  \/ Internal(1)
  \/ Refill

Spec == Init /\ [][Next]_vars

\* Concurrent requests on well-formed uploads.
NextConcurrent ==
  \/ \E r \in Req : Gateway(r, ConcurrentInputs)
  \/ \E r \in Req : Internal(r)
  \/ Refill

SpecConcurrent == Init /\ [][NextConcurrent]_vars

\* The uploads of the specification with a clock: verifications.
ClockInputs == { in \in ConcurrentInputs : in.ep = "verify" }

\* The goroutines of a verification.
VerifyInternal(r) ==
  \/ HandlerRecv(r)
  \/ HandlerTimeout(r)
  \/ ExtractFrames(r)
  \/ LivenessTask(r)
  \/ VectorTask(r)
  \/ GoroutinePanic(r)
  \/ RecvFrames(r)
  \/ FrameTimeout(r)
  \/ RecvLiveness(r)
  \/ RecvVector(r)
  \/ RecvVectorErr(r)
  \/ JoinTimeout(r)
  \/ Merge(r)
  \/ Release(r)

\* Concurrent verifications while the clock runs.
NextClock ==
  \/ \E r \in Req : HandleVerifyVideo(r, ClockInputs)
  \/ \E r \in Req : VerifyInternal(r)
  \/ Refill
  \/ Tick

SpecClock == Init /\ [][NextClock]_vars

\* Requests the gateway answers at once: /health, and forms that do not
\* parse.
LimiterInputs ==
  {HealthReq}
  \cup { in \in WideInputs :
           ~in.form /\ ~in.hasVideo /\ ~in.readable /\ in.size = 0
             /\ in.mime = "" }

\* Requests one after the other at the limiter, while a minute is observed.
NextLimiter ==
  \/ RateLimit(1, LimiterInputs)
  \/ Recovery(1, LimiterInputs)
  \/ Health(1, LimiterInputs)
  \/ HandleVerifyVideo(1, LimiterInputs)
  \/ HandleRegisterFace(1, LimiterInputs)
  \/ Release(1)
  \/ Refill
  \/ OpenWindow

SpecLimiter == Init /\ [][NextLimiter]_vars

\* The steps of the worker goroutine: VerifyVideo and RegisterFace.
Worker(r) ==
  \/ RecvFrames(r)
  \/ FrameTimeout(r)
  \/ RecvLiveness(r)
  \/ RecvVector(r)
  \/ RecvVectorErr(r)
  \/ JoinTimeout(r)
  \/ Merge(r)
  \/ RegLock(r)
  \/ RegAppend(r)
  \/ SaveMarshal(r)
  \/ SaveWrite(r)

\* One request at a time on well-formed uploads.
NextLive ==
  \/ Gateway(1, ConcurrentInputs)
  \/ Internal(1)
  \/ Refill

\* The scheduler runs every goroutine that can run, the computations of the
\* tasks end, and the timers a select waits on fire.
SpecLive ==
  /\ Init
  /\ [][NextLive]_vars
  /\ WF_vars(ExtractFrames(1))
  /\ WF_vars(LivenessTask(1))
  /\ WF_vars(VectorTask(1))
  /\ WF_vars(Worker(1))

\* The uploads of the specification of concurrent registrations.
RaceInputs == { in \in ConcurrentInputs : in.ep = "register" }

\* The goroutines of a registration.
RegisterInternal(r) ==
  \/ HandlerRecv(r)
  \/ HandlerTimeout(r)
  \/ ExtractFrames(r)
  \/ LivenessTask(r)
  \/ VectorTask(r)
  \/ GoroutinePanic(r)
  \/ RecvFrames(r)
  \/ FrameTimeout(r)
  \/ RecvLiveness(r)
  \/ RecvVector(r)
  \/ RecvVectorErr(r)
  \/ JoinTimeout(r)
  \/ Merge(r)
  \/ RegLock(r)
  \/ RegAppend(r)
  \/ SaveMarshal(r)
  \/ SaveWrite(r)

\* Concurrent registrations, each context serving one.
NextRace ==
  \/ \E r \in Req : HandleRegisterFace(r, RaceInputs)
  \/ \E r \in Req : RegisterInternal(r)

SpecRace == Init /\ [][NextRace]_vars

\* One request at a time on well-formed uploads, over several runs of the
\* service.
NextRestart ==
  \/ Gateway(1, Inputs)
  \/ Internal(1)
  \/ Refill
  \/ Shutdown
  \/ DamageFile
  \/ Restart

SpecRestart == Init /\ [][NextRestart]_vars

\* The functions of the service called directly, as its tests call them.
NextDirect ==
  \/ CallExtractFrames
  \/ CallDetectLiveness
  \/ CallGenerateFaceVector
  \/ CallCheckForDuplicates
  \/ CallCosineSimilarity
  \/ CallRegisterFace
  \/ CallReturn

SpecDirect == Init /\ [][NextDirect]_vars


\* ================================================================ claims

\* The request in context r reached its handler: the limiter admitted it
\* and the handler did not panic.
Handled(r) ==
  /\ req[r].ep \in {"verify", "register"}
  /\ resp[r] \notin {TooManyRequests, InternalServerError}

\* The video in context r shows a live subject with a detectable face.
GoodVideo(r) ==
  /\ req[r].video.score >= 85
  /\ Len(req[r].video.faces) > 0

TimeoutErrors == {"frame extraction timeout", "processing timeout"}
TimeoutCodes == {"VERIFICATION_TIMEOUT", "REGISTRATION_TIMEOUT"}

\* C1: a VerifyVideo that passed liveness for a request that claims no
\* identity, or an identity with no stored enrollment, returned verified
\* with confidence 1.0.
C1_TrustOnFirstUse ==
  \A r \in Req :
    ( /\ vres[r].err = None
      /\ vres[r].livenessScore >= 85
      /\ (req[r].uid = NoUser \/ req[r].uid \notin DOMAIN faceVectors) )
    => (vres[r].verified /\ vres[r].confidence = 100)

\* C2: a registration of a live video with a face fails only by a timeout
\* or a failed save, whatever the store holds; and a verification of an
\* identity against a store that holds the embedding of the same video is
\* verified with confidence at least the similarity threshold.
C2_RegisterThenVerify ==
  \A r \in Req :
    /\ ( /\ req[r].ep = "register"
         /\ GoodVideo(r)
         /\ hch[r].chan = "errChan" )
       => hch[r].err \in {None, "save failed"} \cup TimeoutErrors
    /\ ( /\ req[r].ep = "verify"
         /\ GoodVideo(r)
         /\ hch[r].chan = "resultChan"
         /\ req[r].uid \in DOMAIN faceVectors
         /\ \E i \in 1..Len(faceVectors[req[r].uid]) :
              faceVectors[req[r].uid][i].vector
                = req[r].video.faces[1].descriptor )
       => (vres[r].verified /\ vres[r].confidence >= 75)

\* The registration in context r is in its read-modify-write cycle: it has
\* taken the lock to append and has not yet written the store file.
InCycle(r) == wpc[r] \in {"locked", "marshal", "write"}

\* C3: a registration holds the exclusive lock through its whole cycle, so
\* no two registrations are in their cycles at the same time.
C3_ExclusiveCycle ==
  \A r \in Req : InCycle(r) =>
    (storageMutex = r /\ \A q \in Req \ {r} : ~InCycle(q))

\* C4: whatever faults while a request is processed, the process does not
\* terminate.
C4_ProcessSurvivesFaults == alive

\* C5: a request whose VerifyVideo ended on the frame extraction budget or
\* on the join budget is answered with the timeout code.
C5_InnerTimeoutCode ==
  \A r \in Req :
    (resp[r].status # 0 /\ vres[r].err \in TimeoutErrors)
    => resp[r].code \in TimeoutCodes

\* C6: a handler that leaves its select with nothing delivered on its
\* channels has answered with the timeout code, wherever its worker is; and
\* once the handler has answered, the response never changes, whatever the
\* worker delivers later.
C6_TimeoutAnswerIsFinal ==
  [][ \A r \in Req :
        /\ (hpc[r] = "select" /\ hpc'[r] = "done" /\ hch[r].chan = None)
           => (resp'[r].status = 408 /\ resp'[r].code \in TimeoutCodes)
        /\ (hpc[r] = "done" /\ hpc'[r] = "done") => resp'[r] = resp[r] ]_vars

\* C6 witness: the handler answered with the timeout code and the result
\* its worker produced stays undelivered on resultChan.
C6_Witness ==
  \E r \in Req :
    /\ resp[r].code = "VERIFICATION_TIMEOUT"
    /\ hpc[r] = "done"
    /\ wpc[r] = "finished"
    /\ hch[r].chan = "resultChan"

\* The bytes of [A-Za-z0-9_-].
PatternBytes == (97..122) \cup (65..90) \cup (48..57) \cup {45, 95}

\* The id matches [A-Za-z0-9_-]{1,64}.
MatchesPattern(uid) ==
  /\ Len(uid) \in 1..64
  /\ \A i \in 1..Len(uid) : uid[i] \in PatternBytes

\* The request fails validation in one of the ways the gateway rejects.
FailsValidation(in) ==
  \/ ~in.hasVideo
  \/ in.size > 50 * 1024 * 1024
  \/ in.size < 1024
  \/ in.mime \notin {"video/webm", "video/mp4", "video/avi", "video/mov",
                     "video/quicktime", "image/jpeg", "image/png"}
  \/ (in.uid # NoUser /\ ~MatchesPattern(in.uid))
  \/ (in.ep = "register" /\ in.uid = NoUser)

\* C7: a /verify or /register request that fails validation is answered
\* (with 400, unless the limiter, a recovered panic or a failed read of the
\* upload answered first) without any goroutine of the face service ever
\* started for it, and the step that answers it leaves the map and the
\* store file as they were.
C7_NoWorkForInvalidInput ==
  /\ [] (\A r \in Req :
          (req[r].ep \in {"verify", "register"} /\ FailsValidation(req[r]))
          => /\ wpc[r] = None /\ fch[r] = None /\ lch[r] = None
             /\ vch[r] = None /\ vres[r] = NoResult /\ hch[r] = NoMsg
             /\ hpc[r] = "done"
             /\ \/ resp[r].status = 400 /\ {"error", "code"} \subseteq resp[r].keys
                \/ resp[r] \in {TooManyRequests, InternalServerError,
                                ErrorBody(500, "FILE_READ_ERROR")})
  /\ [][ \A r \in Req :
           (hpc[r] = "idle" /\ req'[r].ep \in {"verify", "register"}
              /\ FailsValidation(req'[r]))
           => (faceVectors' = faceVectors /\ diskFile' = diskFile) ]_vars

\* C7 witness: an upload of 50MB+1 byte was answered INVALID_VIDEO_FILE.
C7_Witness ==
  \E r \in Req :
    /\ req[r].size = 50 * 1024 * 1024 + 1
    /\ resp[r].status = 400
    /\ resp[r].code = "INVALID_VIDEO_FILE"
    /\ wpc[r] = None

\* C8: every rejection carries both an error message and a code.
C8_ErrorBodiesCarryCode ==
  \A r \in Req :
    resp[r].status >= 400 => {"error", "code"} \subseteq resp[r].keys

\* The size check decides the answer of the request in context r: the
\* upload is there, its type is allowed, and the checks before the size
\* check pass.
SizeDecides(r) ==
  /\ Handled(r)
  /\ req[r].form /\ req[r].hasVideo
  /\ req[r].mime \in ValidTypes
  /\ req[r].ep = "register" => MatchesPattern(req[r].uid)

\* C9 as stated: an upload is rejected with INVALID_VIDEO_FILE exactly when
\* its size is not strictly between 1KB and 50MB.
C9_StrictSizeLimits ==
  \A r \in Req : SizeDecides(r) =>
    (resp[r].code = "INVALID_VIDEO_FILE"
       <=> ~(req[r].size > 1024 /\ req[r].size < 50 * 1024 * 1024))

\* C9 amended: an upload is rejected with INVALID_VIDEO_FILE exactly when
\* its size is below 1024 bytes or above 50*1024*1024 bytes; both limits
\* are accepted.
C9_InclusiveSizeLimits ==
  \A r \in Req : SizeDecides(r) =>
    (resp[r].code = "INVALID_VIDEO_FILE"
       <=> ~(req[r].size >= 1024 /\ req[r].size <= 50 * 1024 * 1024))

\* C9 witness: uploads of exactly 1024 bytes and of exactly 50MB went on to
\* the face service.
C9_Witness ==
  \E r \in Req :
    /\ SizeDecides(r)
    /\ req[r].size \in {1024, 50 * 1024 * 1024}
    /\ hpc[r] = "select"
    /\ wpc[r] = "frames"

\* The user id check decides the answer of the request in context r.
UserIDDecides(r) ==
  /\ Handled(r)
  /\ req[r].form /\ req[r].hasVideo
  /\ req[r].ep = "verify" =>
       ( /\ req[r].size >= 1024 /\ req[r].size <= 50 * 1024 * 1024
         /\ req[r].mime \in ValidTypes
         /\ req[r].readable )

\* C10: where the user id check decides, a non-empty id outside
\* [A-Za-z0-9_-]{1,64} is answered 400 INVALID_USER_ID on both routes, a
\* missing id 400 MISSING_USER_ID on /register, and no other request gets
\* either code; /verify without an id goes on to the face service.
C10_UserIDPattern ==
  \A r \in Req : UserIDDecides(r) =>
    /\ (req[r].uid # NoUser /\ ~MatchesPattern(req[r].uid))
         <=> (resp[r].status = 400 /\ resp[r].code = "INVALID_USER_ID")
    /\ (req[r].ep = "register" /\ req[r].uid = NoUser)
         <=> (resp[r].status = 400 /\ resp[r].code = "MISSING_USER_ID")
    /\ (req[r].ep = "verify" /\ req[r].uid = NoUser)
         => (resp[r].status # 400 /\ (alive => hpc[r] = "select" \/ wpc[r] # None))

\* C10 witness: /register with user_id "abc 123" was answered
\* INVALID_USER_ID.
C10_Witness ==
  \E r \in Req :
    /\ req[r].ep = "register"
    /\ req[r].uid = << 97, 98, 99, 32, 49, 50, 51 >>
    /\ resp[r].status = 400
    /\ resp[r].code = "INVALID_USER_ID"

\* C11: the VerifyVideo invocations of any two contexts carry different
\* verification ids, each of the form ver_<token>.
C11_UniqueVerificationIDs ==
  \A r \in Req : \A q \in Req \ {r} :
    (vid[r] # NoId /\ vid[q] # NoId)
    => (vid[r].prefix = "ver_" /\ vid[r] # vid[q])

\* C12: no more requests are admitted in a minute than the limiter's 60
\* (Burst, at the scale of the model), and a request the limiter rejects is
\* answered 429 with no goroutine of the face service started for it.
C12_AtMostBurstPerMinute ==
  /\ win.open => win.admitted <= Burst
  /\ \A r \in Req :
       (hpc[r] = "done" /\ resp[r].status = 429) => wpc[r] = None

\* The verification or registration of context r is being processed: its
\* handler waits for the face service, or its worker still runs.
Processing(r) ==
  /\ req[r].ep \in {"verify", "register"}
  /\ hpc[r] = "select" \/ wpc[r] \notin {None, "finished"}

\* C13: no more than MAX_CONCURRENT_REQUESTS verifications or registrations
\* are being processed at the same time.
C13_ConcurrencyCap ==
  Cardinality({ r \in Req : Processing(r) }) <= MaxConcurrentRequests

\* C14: extractFramesFromVideo returns frames or an error, and for video
\* data of no bytes, from which no frame can be produced, an error.
C14_EmptyVideoIsAnError ==
  call.fn = "extractFramesFromVideo" =>
    /\ call.out.err # None \/ Len(call.out.frames) > 0
    /\ call.videoData.len = 0 => call.out.err # None

\* C15: for fewer than 2 frames detectLiveness returns isLive = false and
\* score = 0 with a nil error.
C15_FewFramesNotLive ==
  (call.fn = "detectLiveness" /\ Len(call.frames) < 2) =>
    (call.out.err = None /\ ~call.out.isLive /\ call.out.score = 0)

\* C15 witness: detectLiveness was called with a single frame.
C15_Witness ==
  /\ call.fn = "detectLiveness"
  /\ Len(call.frames) = 1
  /\ call.out.score = 0

\* C16: for 2 or more frames each signal lies in [0,1], the score is
\* 0.4*motion + 0.4*texture + 0.2*color and lies in [0,1], and isLive is
\* true exactly when the score is at least 0.85.
C16_WeightedScore ==
  (call.fn = "detectLiveness" /\ Len(call.frames) >= 2) =>
    /\ call.signals.motion \in 0..10000
    /\ call.signals.texture \in 0..10000
    /\ call.signals.color \in 0..10000
    /\ call.out.score
         = (40 * call.signals.motion + 40 * call.signals.texture
              + 20 * call.signals.color) \div 10000
    /\ call.out.score \in 0..100
    /\ call.out.isLive <=> call.out.score >= 85
    /\ call.out.err = None

\* C16 witness: a sequence with motion whose score is the threshold was
\* found live.
C16_Witness ==
  /\ call.fn = "detectLiveness"
  /\ Len(call.frames) >= 2
  /\ call.signals.motion > 0
  /\ call.out.score = 85
  /\ call.out.isLive

\* C17: two or more identical frames are found live, with a positive score
\* and a positive confidence.
C17_IdenticalFramesLive ==
  ( /\ call.fn = "detectLiveness"
    /\ Len(call.frames) >= 2
    /\ \A i \in 1..Len(call.frames) : call.frames[i] = call.frames[1] )
  => (call.out.isLive /\ call.out.score > 0 /\ call.out.confidence > 0)

\* The cosine similarities of the new embedding of the call to the stored
\* ones.
Similarities ==
  { cosineSimilarity(call.newVector, call.userVectors[i].vector) :
      i \in 1..Len(call.userVectors) }

\* C18: for an identity with stored embeddings the similarity returned is
\* the maximum of the cosine similarities to them, and it reaches the
\* similarity threshold exactly when that maximum does.
C18_MaximumSimilarity ==
  (call.fn = "checkForDuplicates" /\ Len(call.userVectors) >= 1) =>
    /\ call.out \in Similarities
    /\ \A x \in Similarities : call.out >= x
    /\ call.out >= 75 <=> \E x \in Similarities : x >= 75

\* C19: with several faces the embedding is that of a face of the largest
\* area; with none the generator returns the no-face error.
C19_LargestFace ==
  call.fn = "generateFaceVector" =>
    IF Len(call.faces) = 0
      THEN call.out.err = "no faces detected"
      ELSE /\ call.out.err = None
           /\ \E i \in 1..Len(call.faces) :
                /\ \A j \in 1..Len(call.faces) :
                     call.faces[i].area >= call.faces[j].area
                /\ call.out.vector = call.faces[i].descriptor

\* All components of the vector are zero.
AllZero(v) == \A i \in 1..Len(v) : v[i] = 0

\* C20: cosineSimilarity is 0 for vectors of different lengths and when
\* either vector is all-zero.
C20_DegenerateCosine ==
  ( /\ call.fn = "cosineSimilarity"
    /\ \/ Len(call.a) # Len(call.b)
       \/ AllZero(call.a)
       \/ AllZero(call.b) )
  => call.out = 0

\* C20 witness: two non-zero vectors of different lengths got 0.
C20_Witness ==
  /\ call.fn = "cosineSimilarity"
  /\ Len(call.a) # Len(call.b)
  /\ ~AllZero(call.a) /\ ~AllZero(call.b)
  /\ call.out = 0

\* Maps the service can have persisted.
PersistableStores ==
  {EmptyStore}
  \cup { [u \in {U1} |-> l] :
           l \in UNION { [1..n -> { FaceVector(U1, FaceA),
                                    FaceVector(U1, FaceB) }] :
                           n \in 1..(MaxEnroll + 1) } }

\* The bytes of the file are those a save wrote under the configured key.
Authentic(file) ==
  /\ file.exists
  /\ file.damage = "none"
  /\ file.key = << "scrypt", "secret", "connect-hub-face-verification-salt" >>

\* The map whose serialization the file holds.
PersistedMap(file) ==
  CHOOSE store \in PersistableStores :
    \A u \in {U1} :
      IF u \in DOMAIN store THEN << u, store[u] >> \in file.sealed
      ELSE file.sealed = {}

\* C21: every start of the service succeeds, and the map it starts with is
\* the persisted map when the store file is there and authenticates under
\* the configured key, and empty otherwise: when the file is missing,
\* unreadable, truncated, tampered with or sealed under another key.
C21_LoadAllOrNothing ==
  [][ (~alive /\ alive') =>
        faceVectors' = IF Authentic(diskFile) THEN PersistedMap(diskFile)
                       ELSE EmptyStore ]_vars

\* C21 witness: the service runs with an empty map on a store file that
\* holds enrollments and no longer authenticates.
C21_Witness ==
  /\ alive
  /\ diskFile.exists
  /\ ~Authentic(diskFile)
  /\ diskFile.sealed # {}
  /\ faceVectors = EmptyStore

\* The registration in context r has appended its embedding to the map.
Appended(r) == req[r].ep = "register" /\ wpc[r] \in {"marshal", "write"}

\* C22: the map changes only by a registration that appends one embedding
\* to the end of its identity's list, and a registration that has changed
\* the map does not go on to report a failure.
C22_AppendOnlyOnSuccess ==
  [][ /\ (alive' /\ faceVectors' # faceVectors) =>
           \E r \in Req :
             /\ req[r].ep = "register"
             /\ faceVectors'
                  = Append1(faceVectors, req[r].uid,
                            generateFaceVector(req[r].video.faces).vector)
      /\ \A r \in Req : Appended(r) => hch'[r].err = None ]_vars

\* C23: RegisterFace with an empty user id returns an error and stores no
\* embedding, whatever the video.
C23_EmptyUserIDRejected ==
  (call.fn = "RegisterFace" /\ call.userID = NoUser) =>
    (call.out.err # None /\ call.out.faceVectors = call.store)

\* C24: the two analyses are started together when the frames arrive; the
\* merge step is reached only with both the liveness result and the
\* embedding received; and whenever the deadline of the join is taken,
\* before the first result or between the two, VerifyVideo ends with the
\* processing timeout and never merges.
C24_JoinUnderOneDeadline ==
  /\ [] (\A r \in Req :
          wpc[r] = "merge" => (lch[r] = "taken" /\ vch[r] = "taken"))
  /\ [][ \A r \in Req :
          /\ (wpc[r] = "frames" /\ wpc'[r] = "join")
               => (lch'[r] = "run" /\ vch'[r] = "run")
          /\ (wpc[r] = "join" /\ wpc'[r] = "merge")
               => (lch'[r] = "taken" /\ vch'[r] = "taken")
          /\ (wpc[r] = "join" /\ vres'[r].err = "processing timeout")
               => /\ wpc'[r] = "finished"
                  /\ vres'[r].error = "Processing timeout"
                  /\ ~vres'[r].verified
                  /\ hch'[r] = Msg("errChan", "processing timeout") ]_vars

\* C24 witness: the deadline ended a join that had received the liveness
\* result and was waiting for the embedding.
C24_Witness ==
  \E r \in Req :
    /\ vres[r].err = "processing timeout"
    /\ lch[r] = "taken"
    /\ vch[r] \in {"run", "full"}
    /\ wpc[r] = "finished"

\* The embedding generation of the request in context r reports an error.
EmbeddingFails(r) ==
  /\ req[r].ep \in {"verify", "register"}
  /\ Len(req[r].video.faces) = 0

\* C25: a VerifyVideo whose embedding generation reports an error never
\* reaches the match check and never returns a nil error or verified; when
\* it receives the error it returns it, with a result that names the
\* failing stage and is not verified.  (Frame extraction and liveness
\* detection report no errors.)
C25_StageErrorFails ==
  /\ [] (\A r \in Req : EmbeddingFails(r) =>
          /\ wpc[r] \notin {"merge", "embed", "locked", "marshal", "write"}
          /\ vres[r] = NoResult \/ vres[r].err # None
          /\ ~vres[r].verified
          /\ hch[r].chan # "resultChan")
  /\ [][ \A r \in Req :
          (vch[r] = "err" /\ vch'[r] = "taken") =>
            /\ vres'[r].err = "no faces detected"
            /\ vres'[r].error = "Face vector generation failed"
            /\ ~vres'[r].verified
            /\ wpc'[r] = "finished"
            /\ hch'[r] = Msg("errChan", "no faces detected") ]_vars

\* C25 witness: a verification whose video shows no face has ended with
\* the error of the embedding stage on the handler's errChan.
C25_Witness ==
  \E r \in Req :
    /\ req[r].ep = "verify"
    /\ EmbeddingFails(r)
    /\ vres[r].error = "Face vector generation failed"
    /\ hch[r] = Msg("errChan", "no faces detected")
    /\ lch[r] = "taken"

\* The registration in context r has completed and reported success.
Succeeded(r) ==
  /\ req[r].ep = "register"
  /\ wpc[r] = "finished"
  /\ hch[r] = Msg("errChan", None) \/ resp[r].status = 200

\* C26: when no registration is in flight and every registration reported
\* success, the map the store file decrypts to is the map in memory.
C26_FileMatchesMemory ==
  (alive /\ \A r \in Req : req[r].ep = "register" => Succeeded(r))
  => loadFaceVectors(diskFile).faceVectors = faceVectors

IsLive(r) == req[r].video.score >= 85

\* C28: a verified result was produced for a request whose frames are
\* live; when liveness fails VerifyVideo returns a nil error with verified
\* false and confidence 0, whatever the store holds and whoever holds its
\* lock.
C28_LivenessGates ==
  /\ [] (\A r \in Req :
          /\ vres[r].verified => (IsLive(r) /\ vres[r].livenessScore >= 85)
          /\ (vres[r] # NoResult /\ vres[r].err = None /\ ~IsLive(r)) =>
               vres[r] = Result(None, FALSE, 0, req[r].video.score, ""))
  /\ [][ \A r \in Req :
          (wpc[r] = "merge" /\ wpc'[r] # "merge" /\ alive' /\ ~IsLive(r)) =>
            vres'[r] = Result(None, FALSE, 0, req[r].video.score, "") ]_vars

\* C28 witness: a verification of frames that are not live, for an
\* enrolled identity with a matching face, returned without an error and
\* not verified.
C28_Witness ==
  \E r \in Req :
    /\ req[r].ep = "verify"
    /\ req[r].uid \in DOMAIN faceVectors
    /\ ~IsLive(r)
    /\ Len(req[r].video.faces) > 0
    /\ hch[r].chan = "resultChan"
    /\ vres[r] = Result(None, FALSE, 0, 60, "")

\* C29: every task of a request ends: the frame extraction, the liveness
\* and the embedding goroutine complete their one send whether or not
\* VerifyVideo still waits for it, and the worker returns.
C29_TasksTerminate ==
  \A r \in Req :
    /\ (fch[r] = "run") ~> (fch[r] # "run")
    /\ (lch[r] = "run") ~> (lch[r] # "run")
    /\ (vch[r] = "run") ~> (vch[r] # "run")
    /\ (wpc[r] \notin {None, "finished"}) ~> (wpc[r] \in {None, "finished"})

\* C29 witness: the frame extraction goroutine has sent its frames after
\* VerifyVideo had returned on the frame extraction timeout, and the
\* worker's error waits on errChan for a handler that has timed out.
C29_Witness ==
  \E r \in Req :
    /\ vres[r].err = "frame extraction timeout"
    /\ wpc[r] = "finished"
    /\ fch[r] = "full"
    /\ hpc[r] = "done"
    /\ hch[r].chan = "errChan"

\* The /register request of context r has been answered with
\* REGISTRATION_TIMEOUT.
TimedOutRegistration(r) ==
  /\ alive
  /\ req[r].ep = "register"
  /\ hpc[r] = "done"
  /\ resp[r] = ErrorBody(408, "REGISTRATION_TIMEOUT")

\* C30: the handler's timeout leaves the worker of a registration where it
\* is, and a registration answered with REGISTRATION_TIMEOUT can go on:
\* take the lock, append its embedding to the map, serialize the map and
\* write the store file.
C30_TimeoutDoesNotCancel ==
  /\ [] (\A r \in Req : TimedOutRegistration(r) =>
          /\ wpc[r] = "embed" => ENABLED RegLock(r)
          /\ wpc[r] = "locked" => ENABLED RegAppend(r)
          /\ wpc[r] = "marshal" => ENABLED SaveMarshal(r)
          /\ wpc[r] = "write" => ENABLED SaveWrite(r))
  /\ [][ \A r \in Req :
          /\ (hpc[r] = "select" /\ hpc'[r] = "done"
                /\ resp'[r].code = "REGISTRATION_TIMEOUT")
               => (wpc'[r] = wpc[r] /\ storageMutex' = storageMutex
                     /\ faceVectors' = faceVectors /\ diskFile' = diskFile)
          /\ (TimedOutRegistration(r) /\ wpc[r] = "locked"
                /\ wpc'[r] = "marshal")
               => faceVectors'
                    = Append1(faceVectors, req[r].uid,
                              generateFaceVector(req[r].video.faces).vector)
          /\ (TimedOutRegistration(r) /\ wpc[r] = "write"
                /\ wpc'[r] = "finished" /\ hch'[r].err = None)
               => diskFile' = encryptData(jsonMarshal(snap[r])) ]_vars

\* C30 witness: a registration that has been answered with
\* REGISTRATION_TIMEOUT holds the lock and is about to append its
\* embedding to the one the map holds for the identity.
C30_Witness ==
  \E r \in Req :
    /\ TimedOutRegistration(r)
    /\ wpc[r] = "locked"
    /\ storageMutex = r
    /\ Len(faceVectors[req[r].uid]) = 1

=============================================================================
